---- MODULE Spec2Model ----
(***************************************************************************)
(* Heimdall's extensibility kernel: the EventBus (core/event_bus.py), the  *)
(* background task runner AsyncWidget/AsyncWorker                          *)
(* (presentation/ui_components/async_widget.py) and the PluginManager      *)
(* (core/plugin_manager.py), each as a state machine over its own fields.  *)
(***************************************************************************)
EXTENDS Integers, Sequences, FiniteSets, TLC

(***************************************************************************)
(* Bounds and input domains.                                               *)
(***************************************************************************)
\* Total number of live registrations across all event types.
MaxSubs == 3

\* Number of tasks submitted with run_async.
MaxTasks == 2
\* Deliveries of a completion that reach a callback or the dialog, per task.
MaxDeliveries == 2

\* Number of plugin instances constructed and stored over a run.
MaxInst == 3
\* Number of candidate packages one discovery goes through.
MaxCandidates == 2
\* Number of plugin classes one candidate package exports.
MaxClasses == 2

\* Handler callables, compared by identity (cb != callback).
Handlers == {"A", "B", "C"}
\* Priorities handed to subscribe.
Priorities == {5, 10}
\* Event type strings.
EventTypes == {"tick", "tock"}
\* What a handler call can do: return, or raise an Exception.
Outcomes == {"return", "raise"}
\* Values a task's callable can return.
Values == {"v1", "v2"}
\* Values of the name property of plugin classes.
PluginNames == {"finance", "reports"}

\* The <<type, handler>> pair whose fate across shutdown is followed; types
\* and handlers are all alike to the bus.
Watched == <<"tick", "A">>

VARIABLES
    \* ---- EventBus ----
    subscribers,  \* self.subscribers: event type -> list of <<callback, priority>>
    subLog,       \* history: per type, the live registrations in subscribe order
    removed,      \* history: <<type, handler>> unsubscribed and not subscribed since
    dropped,      \* history: Watched was registered when shutdown was called and
                  \* has not been subscribed since
    pubPc,        \* position of publish: "idle", "dispatch" (in the for loop), "raised"
    pubType,      \* event.event_type of the publish in progress
    iterList,     \* the list object the for loop of publish iterates
    iterIdx,      \* index of the next entry the for loop yields
    iterLive,     \* that list object is still the one the dict holds for the type
    pubStart,     \* history: the list as it was when this publish started
    pubAdded,     \* history: the handlers subscribed to the type during this publish
    thrSub,       \* a subscribe between its append and its sort: <<type, callback, priority>>
    thrUns,       \* an unsubscribe between its comprehension and its store: <<type, callback, list>>
    aPc,          \* position of publish_async: "idle", "dispatch", "awaiting", "raised", "done"
    aType,        \* event.event_type of that publish_async
    aList,        \* the list the for loop of publish_async iterates
    aIdx,         \* index of the entry that loop is at
    aLog,         \* history of the publish_async in progress: <<what, index>> in order
    evSent,       \* history: <<event_type, data>> of the Event as the publisher built it
    evType,       \* event.event_type of the Event being published
    evData,       \* event.data of that Event
    evSeen,       \* history: the <<event_type, data>> each callback was called with
    calls,        \* history: <<handler, outcome>> of each call made by this publish
    \* ---- AsyncWidget / AsyncWorker ----
    tasks,        \* self.tasks: list of (thread, worker) handles, one per task id
    tState,       \* per task: where its worker and its completion handler stand
    tCallbacks,   \* per task: <<on_complete given, on_error given>>
    tReturned,    \* history: per task, what the callable did: <<"return", v>>, <<"raise">>
    tRanOn,       \* history: per task, the thread the callable was last run on
    tSignal,      \* per task: the signal the worker emitted, <<name, argument>>
    completeCalls, \* history: per task, the arguments of the on_complete calls
    errorCalls,   \* history: per task, the arguments of the on_error calls
    surfaces,     \* history: per task, the number of error dialogs shown
    tParent,      \* history: per task, the task whose on_complete callback submitted it, or 0
    \* ---- PluginManager ----
    plugins,      \* self.plugins: dict in insertion order, a list of <<name, instance>>
    instances,    \* history: per instance constructed and stored, its name and
                  \* whether its candidate was a broken one
    pmPc,         \* "idle", or "discovering": inside the candidate loop of discover_plugins
    toScan,       \* number of candidates the plugin source yields to this discovery
    scanned,      \* number of candidates this discovery has gone through
    pmOp,         \* the operation last called: "none", "discover", "initialize", "shutdown"
    opLog,        \* history: <<instance, outcome>> of each call made by that operation
    opRaised,     \* whether that operation raised to its caller
    initState,    \* history: per instance, the outcome of its last initialize()
    \* ---- ApplicationOrchestrator ----
    orchOp,       \* the orchestrator method last called: "none", "initialize", "shutdown"
    orchStep,     \* index of the statement that method is at, 0 when it is over
    orchTrace,    \* history: the statements that call has completed, in order
    orchRaised,   \* whether that call raised to its caller
    config,       \* config_manager.config: "defaults", or "merged" with a file
    loop,         \* event_bus.loop is set
    services,     \* self.services: dict in insertion order, a list of <<name, instance>>
    lastReg,      \* history: per name, the instance last given to register_service
    \* ---- ConfigurationManager ----
    cfg,          \* self.config: section -> what is stored under it
    cfgOut        \* the call last made: its operation, arguments and outcome

busVars == <<subscribers, subLog, removed, dropped, pubPc, pubType, iterList, iterIdx,
            iterLive, pubStart, pubAdded, calls>>

taskVars == <<tasks, tState, tCallbacks, tReturned, tRanOn, tSignal, completeCalls,
             errorCalls, surfaces>>

pmVars == <<plugins, instances, pmPc, toScan, scanned, pmOp, opLog, opRaised, initState>>

orchVars == <<orchOp, orchStep, orchTrace, orchRaised, config, loop, services, lastReg>>

\* The calls of subscribe and unsubscribe that other threads are part-way through.
thrVars == <<thrSub, thrUns>>

\* The publish_async in progress.
asyncVars == <<aPc, aType, aList, aIdx, aLog>>

\* The Event object of the publish in progress.
eventVars == <<evSent, evType, evData, evSeen>>

\* Which task submitted which.
chainVars == <<tParent>>

\* The contents of the configuration manager and the outcome of its last call.
cfgVars == <<cfg, cfgOut>>

vars == <<busVars, thrVars, asyncVars, eventVars, cfgVars, taskVars, chainVars, pmVars,
          orchVars>>

\* What the operations of one component leave alone.
nonBus == <<thrVars, asyncVars, eventVars, cfgVars, taskVars, chainVars, pmVars, orchVars>>
nonTask == <<busVars, thrVars, asyncVars, eventVars, cfgVars, chainVars, pmVars, orchVars>>
nonPlugin == <<busVars, thrVars, asyncVars, eventVars, cfgVars, taskVars, chainVars, orchVars>>
nonOrch == <<thrVars, asyncVars, eventVars, cfgVars, taskVars, chainVars>>
nonConfig == <<busVars, thrVars, asyncVars, eventVars, taskVars, chainVars, pmVars, orchVars>>

(***************************************************************************)
(* EventBus                                                                *)
(***************************************************************************)
\* key=lambda x: -x[1]
SortKey(e) == -e[2]

\* A variant that places an entry before the entries of equal key.
InsertSortedBeforeTies(s, e) ==
    LET n == Cardinality({i \in 1..Len(s) : SortKey(s[i]) < SortKey(e)})
    IN  SubSeq(s, 1, n) \o <<e>> \o SubSeq(s, n + 1, Len(s))

\* One insertion of list.sort (stable): the entry moves left past the entries
\* of strictly greater key only.
RECURSIVE InsertSorted(_, _)
InsertSorted(s, e) ==
    IF s = <<>> THEN <<e>>
    ELSE IF SortKey(s[Len(s)]) <= SortKey(e) THEN Append(s, e)
    ELSE Append(InsertSorted(SubSeq(s, 1, Len(s) - 1), e), s[Len(s)])

\* A variant that keeps one entry per callback.
RECURSIVE ListSortOnce(_)
ListSortOnce(s) ==
    IF s = <<>> THEN <<>>
    ELSE LET r == ListSortOnce(SubSeq(s, 1, Len(s) - 1))
         IN  IF \E i \in 1..Len(r) : r[i][1] = s[Len(s)][1] THEN r
             ELSE InsertSorted(r, s[Len(s)])

\* list.sort(key=...): stable, ascending in the key.
RECURSIVE ListSort(_)
ListSort(s) ==
    IF s = <<>> THEN <<>>
    ELSE InsertSorted(ListSort(SubSeq(s, 1, Len(s) - 1)), s[Len(s)])

\* defaultdict(list).__getitem__ without the insertion: the list or a new one.
ListOf(t) == IF t \in DOMAIN subscribers THEN subscribers[t] ELSE <<>>

LogOf(t) == IF t \in DOMAIN subLog THEN subLog[t] ELSE <<>>

RECURSIVE SumLen(_, _)
SumLen(f, S) ==
    IF S = {} THEN 0
    ELSE LET x == CHOOSE y \in S : TRUE
         IN  Len(f[x]) + SumLen(f, S \ {x})

TotalSubs == SumLen(subscribers, DOMAIN subscribers)

\* The dict with key t bound to list l.
Bind(d, t, l) == [x \in DOMAIN d \cup {t} |-> IF x = t THEN l ELSE d[x]]

\* A variant that removes only the first registration of the callback.
RemoveFirstOf(l, h) ==
    IF \E i \in 1..Len(l) : l[i][1] = h
    THEN LET k == CHOOSE i \in 1..Len(l) :
                     l[i][1] = h /\ \A j \in 1..(i - 1) : l[j][1] # h
         IN  SubSeq(l, 1, k - 1) \o SubSeq(l, k + 1, Len(l))
    ELSE l

\* A variant that also drops the entries that follow the callback's first.
CutAtCallback(l, h) ==
    IF \E i \in 1..Len(l) : l[i][1] = h
    THEN SubSeq(l, 1, (CHOOSE i \in 1..Len(l) :
                          l[i][1] = h /\ \A j \in 1..(i - 1) : l[j][1] # h) - 1)
    ELSE l

\* [(cb, prio) for cb, prio in l if cb != callback]
WithoutCallback(l, h) == SelectSeq(l, LAMBDA e : e[1] # h)

\* A variant with no try/except around the call.
AfterCallUncaught(o) == IF o = "raise" THEN "propagate" ELSE "next"

\* try: callback(event) / except Exception: log -- the loop goes on either way.
AfterCall(o) == "next"

BusIdle == pubPc = "idle"

Subscribe(t, h, p) ==
    /\ BusIdle
    /\ TotalSubs < MaxSubs
    /\ subscribers' = Bind(subscribers, t, ListSort(Append(ListOf(t), <<h, p>>)))
    /\ subLog' = Bind(subLog, t, Append(LogOf(t), <<h, p>>))
    /\ removed' = removed \ {<<t, h>>}
    /\ dropped' = (dropped /\ <<t, h>> # Watched)
    /\ UNCHANGED <<pubPc, pubType, iterList, iterIdx, iterLive, pubStart, pubAdded, calls>>
    /\ UNCHANGED nonBus

Unsubscribe(t, h) ==
    /\ BusIdle
    /\ IF t \in DOMAIN subscribers
       THEN /\ subscribers' = Bind(subscribers, t, WithoutCallback(subscribers[t], h))
            /\ subLog' = Bind(subLog, t, SelectSeq(LogOf(t), LAMBDA e : e[1] # h))
       ELSE UNCHANGED <<subscribers, subLog>>
    /\ removed' = removed \cup {<<t, h>>}
    /\ UNCHANGED <<dropped, pubPc, pubType, iterList, iterIdx, iterLive, pubStart, pubAdded,
                   calls>>
    /\ UNCHANGED nonBus

\* publish, up to the first callback: the membership test and the iterator.
DoPublishBegin(t) ==
    /\ BusIdle
    /\ t \in DOMAIN subscribers
    /\ pubPc' = "dispatch"
    /\ pubType' = t
    /\ iterList' = subscribers[t]
    /\ iterIdx' = 1
    /\ iterLive' = TRUE
    /\ pubStart' = subscribers[t]
    /\ pubAdded' = {}
    /\ calls' = <<>>
    /\ UNCHANGED <<subscribers, subLog, removed, dropped>>

PublishBegin(t) ==
    /\ DoPublishBegin(t)
    /\ UNCHANGED nonBus

\* One pass of the loop body: the callback is called and returns or raises.
DoPublishCall(o) ==
    /\ pubPc = "dispatch"
    /\ iterIdx <= Len(iterList)
    /\ calls' = Append(calls, <<iterList[iterIdx][1], o>>)
    /\ IF AfterCall(o) = "next"
       THEN /\ iterIdx' = iterIdx + 1
            /\ pubPc' = "dispatch"
       ELSE /\ iterIdx' = iterIdx
            /\ pubPc' = "raised"
    /\ UNCHANGED <<subscribers, subLog, removed, dropped, pubType, iterList, iterLive,
                   pubStart, pubAdded>>

PublishCall(o) ==
    /\ DoPublishCall(o)
    /\ UNCHANGED nonBus

\* One pass of the loop body in which the callback, before it returns or
\* raises, calls subscribe(event_type, h, p) for the type being published:
\* the append and the sort act on the list object the dict holds, which is
\* the one the loop iterates unless the key was rebound since.
PublishCallSubscribes(o, h, p) ==
    /\ pubPc = "dispatch"
    /\ iterIdx <= Len(iterList)
    /\ TotalSubs < MaxSubs
    /\ calls' = Append(calls, <<iterList[iterIdx][1], o>>)
    /\ subscribers' = Bind(subscribers, pubType, ListSort(Append(ListOf(pubType), <<h, p>>)))
    /\ iterList' = IF iterLive THEN ListSort(Append(ListOf(pubType), <<h, p>>)) ELSE iterList
    /\ subLog' = Bind(subLog, pubType, Append(LogOf(pubType), <<h, p>>))
    /\ removed' = removed \ {<<pubType, h>>}
    /\ dropped' = (dropped /\ <<pubType, h>> # Watched)
    /\ pubAdded' = pubAdded \cup {h}
    /\ IF AfterCall(o) = "next"
       THEN /\ iterIdx' = iterIdx + 1
            /\ pubPc' = "dispatch"
       ELSE /\ iterIdx' = iterIdx
            /\ pubPc' = "raised"
    /\ UNCHANGED <<pubType, iterLive, pubStart>>
    /\ UNCHANGED nonBus

\* One pass of the loop body in which the callback calls
\* unsubscribe(event_type, h) for the type being published: the key is bound
\* to a new list, and the loop goes on over the old one.
PublishCallUnsubscribes(o, h) ==
    /\ pubPc = "dispatch"
    /\ iterIdx <= Len(iterList)
    /\ calls' = Append(calls, <<iterList[iterIdx][1], o>>)
    /\ IF pubType \in DOMAIN subscribers
       THEN /\ subscribers' = Bind(subscribers, pubType, WithoutCallback(subscribers[pubType], h))
            /\ subLog' = Bind(subLog, pubType, SelectSeq(LogOf(pubType), LAMBDA e : e[1] # h))
            /\ iterLive' = FALSE
       ELSE UNCHANGED <<subscribers, subLog, iterLive>>
    /\ removed' = removed \cup {<<pubType, h>>}
    /\ IF AfterCall(o) = "next"
       THEN /\ iterIdx' = iterIdx + 1
            /\ pubPc' = "dispatch"
       ELSE /\ iterIdx' = iterIdx
            /\ pubPc' = "raised"
    /\ UNCHANGED <<dropped, pubType, iterList, pubStart, pubAdded>>
    /\ UNCHANGED nonBus

\* The loop is exhausted (or the call raised): publish is about to return.
PublishOver ==
    IF pubPc = "dispatch" THEN iterIdx > Len(iterList) ELSE pubPc = "raised"

DoPublishEnd ==
    /\ PublishOver
    /\ pubPc' = "idle"
    /\ pubType' = "none"
    /\ iterList' = <<>>
    /\ iterIdx' = 1
    /\ iterLive' = FALSE
    /\ pubStart' = <<>>
    /\ pubAdded' = {}
    /\ calls' = <<>>
    /\ UNCHANGED <<subscribers, subLog, removed, dropped>>

PublishEnd ==
    /\ DoPublishEnd
    /\ UNCHANGED nonBus

\* The <<type, handler>> pairs d holds a registration of.
Pairs(d) == UNION {{<<t, d[t][i][1]>> : i \in 1..Len(d[t])} : t \in DOMAIN d}

\* A variant of clear() that leaves the dict as it is.
DictKept(d) == d

\* dict.clear(): no key is left.
DictClear(d) == <<>>

\* shutdown: self.subscribers.clear()
DoBusShutdown ==
    /\ BusIdle
    /\ subscribers' = DictClear(subscribers)
    /\ subLog' = <<>>
    /\ dropped' = (dropped \/ Watched \in Pairs(subscribers))
    /\ UNCHANGED <<removed, pubPc, pubType, iterList, iterIdx, iterLive, pubStart, pubAdded,
                   calls>>

BusShutdown ==
    /\ DoBusShutdown
    /\ UNCHANGED nonBus

BusInit ==
    /\ subscribers = <<>>
    /\ subLog = <<>>
    /\ removed = {}
    /\ dropped = FALSE
    /\ pubPc = "idle"
    /\ pubType = "none"
    /\ iterList = <<>>
    /\ iterIdx = 1
    /\ iterLive = FALSE
    /\ pubStart = <<>>
    /\ pubAdded = {}
    /\ thrSub = <<>>
    /\ thrUns = <<>>
    /\ aPc = "idle"
    /\ aType = "none"
    /\ aList = <<>>
    /\ aIdx = 1
    /\ aLog = <<>>
    /\ evSent = <<>>
    /\ evType = "none"
    /\ evData = "none"
    /\ evSeen = <<>>
    /\ calls = <<>>

BusNext ==
    \/ \E t \in EventTypes, h \in Handlers, p \in Priorities : Subscribe(t, h, p)
    \/ \E t \in EventTypes, h \in Handlers : Unsubscribe(t, h)
    \/ \E t \in EventTypes : PublishBegin(t)
    \/ \E o \in Outcomes : PublishCall(o)
    \/ PublishEnd
    \/ BusShutdown

\* The callbacks that are coroutine functions (asyncio.iscoroutinefunction).
AsyncHandlers == {"A", "C"}

\* A variant that starts the coroutine of an asynchronous callback and goes
\* on without awaiting it.
SuspendsNever(h) == FALSE

\* await callback(event): publish_async is suspended until the coroutine of
\* an asynchronous callback has completed.
Suspends(h) == h \in AsyncHandlers

\* The entries of the history of one kind, and the indices they name.
LogIdx(what) == {aLog[k][2] : k \in {j \in 1..Len(aLog) : aLog[j][1] = what}}

\* No publish_async is between its first and its last statement.
AsyncIdle == aPc \in {"idle", "done"}

\* EventBus.initialize, called before the first publish_async or not at
\* all: the loop is got or made.
BusInitialize ==
    /\ aPc = "idle"
    /\ BusIdle
    /\ loop' = TRUE
    /\ UNCHANGED <<orchOp, orchStep, orchTrace, orchRaised, config, services, lastReg>>
    /\ UNCHANGED <<busVars, thrVars, asyncVars, eventVars, cfgVars, taskVars, chainVars, pmVars>>

\* subscribe while no publish_async is in progress.
AsyncSubscribe(h, p) ==
    /\ AsyncIdle
    /\ Subscribe(Watched[1], h, p)

\* publish_async, up to the first callback: the membership test and the iterator.
PublishAsyncBegin(t) ==
    /\ AsyncIdle
    /\ BusIdle
    /\ t \in DOMAIN subscribers
    /\ aPc' = "dispatch"
    /\ aType' = t
    /\ aList' = subscribers[t]
    /\ aIdx' = 1
    /\ aLog' = <<>>
    /\ UNCHANGED <<busVars, thrVars, eventVars, cfgVars, taskVars, chainVars, pmVars, orchVars>>

\* One pass of the loop body for a coroutine function: the coroutine is
\* started and awaited.
PublishAsyncAwait ==
    /\ aPc = "dispatch"
    /\ aIdx <= Len(aList)
    /\ aList[aIdx][1] \in AsyncHandlers
    /\ aLog' = Append(aLog, <<"await", aIdx>>)
    /\ IF Suspends(aList[aIdx][1])
       THEN /\ aPc' = "awaiting"
            /\ aIdx' = aIdx
       ELSE /\ aPc' = "dispatch"
            /\ aIdx' = aIdx + 1
    /\ UNCHANGED <<aType, aList>>
    /\ UNCHANGED <<busVars, thrVars, eventVars, cfgVars, taskVars, chainVars, pmVars, orchVars>>

\* A coroutine that was started completes, by returning or by raising; a
\* publish_async suspended on it resumes, and its except clause logs a raise.
CoroutineCompletes(o) ==
    /\ \E i \in LogIdx("await") \ LogIdx("resumed") :
          /\ aLog' = Append(aLog, <<"resumed", i>>)
          /\ IF aPc = "awaiting" /\ aIdx = i
             THEN IF AfterCall(o) = "next"
                  THEN /\ aPc' = "dispatch"
                       /\ aIdx' = aIdx + 1
                  ELSE /\ aPc' = "raised"
                       /\ aIdx' = aIdx
             ELSE UNCHANGED <<aPc, aIdx>>
    /\ UNCHANGED <<aType, aList>>
    /\ UNCHANGED <<busVars, thrVars, eventVars, cfgVars, taskVars, chainVars, pmVars, orchVars>>

\* One pass of the loop body for an ordinary callback:
\* self.loop.run_in_executor(None, callback, event) hands the call to the
\* pool and returns a future nobody awaits; with self.loop None the
\* attribute access raises and the except clause logs it. The loop goes on.
PublishAsyncSubmit ==
    /\ aPc = "dispatch"
    /\ aIdx <= Len(aList)
    /\ aList[aIdx][1] \notin AsyncHandlers
    /\ aLog' = Append(aLog, <<IF loop THEN "submit" ELSE "nopool", aIdx>>)
    /\ aIdx' = aIdx + 1
    /\ UNCHANGED <<aPc, aType, aList>>
    /\ UNCHANGED <<busVars, thrVars, eventVars, cfgVars, taskVars, chainVars, pmVars, orchVars>>

\* A thread of the pool runs a call handed to it: callback(event), whose
\* result or exception goes to the future.
ExecutorRuns ==
    /\ \E i \in LogIdx("submit") \ LogIdx("ran") :
          aLog' = Append(aLog, <<"ran", i>>)
    /\ UNCHANGED <<aPc, aType, aList, aIdx>>
    /\ UNCHANGED <<busVars, thrVars, eventVars, cfgVars, taskVars, chainVars, pmVars, orchVars>>

\* The loop is exhausted: publish_async returns.
PublishAsyncEnd ==
    /\ aPc \in {"dispatch", "raised"}
    /\ aPc = "dispatch" => aIdx > Len(aList)
    /\ aPc' = "done"
    /\ UNCHANGED <<aType, aList, aIdx, aLog>>
    /\ UNCHANGED <<busVars, thrVars, eventVars, cfgVars, taskVars, chainVars, pmVars, orchVars>>

BusAsyncNext ==
    \/ BusInitialize
    \/ \E h \in Handlers, p \in Priorities : AsyncSubscribe(h, p)
    \/ PublishAsyncBegin(Watched[1])
    \/ PublishAsyncAwait
    \/ \E o \in Outcomes : CoroutineCompletes(o)
    \/ PublishAsyncSubmit
    \/ ExecutorRuns
    \/ PublishAsyncEnd

\* A variant that reads self.subscribers[event_type] without the membership
\* test: on a defaultdict that read binds a missing key to a new empty list.
AfterGetItem(d, t) == IF t \in DOMAIN d THEN d ELSE Bind(d, t, <<>>)

\* if event.event_type in self.subscribers: the test reads the dict and,
\* defaultdict or not, binds nothing.
AfterContains(d, t) == d

\* publish of an event whose type is not a key: the test fails and publish
\* is about to return with no callback to call.
PublishAbsent(t) ==
    /\ BusIdle
    /\ t \notin DOMAIN subscribers
    /\ subscribers' = AfterContains(subscribers, t)
    /\ pubPc' = "dispatch"
    /\ pubType' = t
    /\ iterList' = <<>>
    /\ iterIdx' = 1
    /\ iterLive' = FALSE
    /\ pubStart' = <<>>
    /\ pubAdded' = {}
    /\ calls' = <<>>
    /\ UNCHANGED <<subLog, removed, dropped>>
    /\ UNCHANGED nonBus

\* publish_async of an event whose type is not a key.
PublishAsyncAbsent(t) ==
    /\ AsyncIdle
    /\ BusIdle
    /\ t \notin DOMAIN subscribers
    /\ subscribers' = AfterContains(subscribers, t)
    /\ aPc' = "dispatch"
    /\ aType' = t
    /\ aList' = <<>>
    /\ aIdx' = 1
    /\ aLog' = <<>>
    /\ UNCHANGED <<subLog, removed, dropped, pubPc, pubType, iterList, iterIdx, iterLive,
                   pubStart, pubAdded, calls>>
    /\ UNCHANGED <<thrVars, eventVars, cfgVars, taskVars, chainVars, pmVars, orchVars>>

\* subscribe, publish and publish_async on several event types, one
\* publish at a time and one priority for all.
RoutingSubscribe(t, h, p) == AsyncIdle /\ Subscribe(t, h, p)

RoutingPublishBegin(t) == AsyncIdle /\ PublishBegin(t)

RoutingPublishAbsent(t) == AsyncIdle /\ PublishAbsent(t)

BusRoutingNext ==
    \/ BusInitialize
    \/ \E t \in EventTypes, h \in Handlers : RoutingSubscribe(t, h, 10)
    \/ \E t \in EventTypes : RoutingPublishBegin(t)
    \/ \E t \in EventTypes : RoutingPublishAbsent(t)
    \/ \E o \in Outcomes : PublishCall(o)
    \/ PublishEnd
    \/ \E t \in EventTypes : PublishAsyncBegin(t)
    \/ \E t \in EventTypes : PublishAsyncAbsent(t)
    \/ PublishAsyncAwait
    \/ \E o \in Outcomes : CoroutineCompletes(o)
    \/ PublishAsyncSubmit
    \/ ExecutorRuns
    \/ PublishAsyncEnd

\* The data a publisher hands to Event(event_type, data), and what a
\* callback can do with the Event it is called with: nothing, assign to or
\* into event.data, or assign event.event_type.
Payloads == {"None", "p1"}
Writes == {"keep", "data", "type"}

\* Event.__init__: self.data = data or {}.
EventData(d) == IF d = "None" THEN "{}" ELSE d

\* The one Event object is passed to every callback, and its attributes are
\* plain ones: what a callback assigns is there for the next callback.
AfterWrite(e, w) ==
    IF w = "data" THEN <<e[1], "p2">>
    ELSE IF w = "type" THEN <<"other", e[2]>>
    ELSE e

\* A publisher builds Event(t, d) and calls publish with it.
EventPublishBegin(t, d) ==
    /\ DoPublishBegin(t)
    /\ evSent' = <<t, EventData(d)>>
    /\ evType' = t
    /\ evData' = EventData(d)
    /\ evSeen' = <<>>
    /\ UNCHANGED <<thrVars, asyncVars, cfgVars, taskVars, chainVars, pmVars, orchVars>>

\* One pass of the loop body: callback(event) with the Event as it is now;
\* the callback does w with it and returns or raises.
EventCall(o, w) ==
    /\ DoPublishCall(o)
    /\ evSeen' = Append(evSeen, <<evType, evData>>)
    /\ evType' = AfterWrite(<<evType, evData>>, w)[1]
    /\ evData' = AfterWrite(<<evType, evData>>, w)[2]
    /\ UNCHANGED evSent
    /\ UNCHANGED <<thrVars, asyncVars, cfgVars, taskVars, chainVars, pmVars, orchVars>>

\* publish returns; the Event is garbage.
EventPublishEnd ==
    /\ DoPublishEnd
    /\ evSent' = <<>>
    /\ evType' = "none"
    /\ evData' = "none"
    /\ evSeen' = <<>>
    /\ UNCHANGED <<thrVars, asyncVars, cfgVars, taskVars, chainVars, pmVars, orchVars>>

\* Events published on one type to handlers that read and write them.
BusEventNext ==
    \/ \E h \in Handlers, p \in Priorities : Subscribe(Watched[1], h, p)
    \/ \E d \in Payloads : EventPublishBegin(Watched[1], d)
    \/ \E o \in Outcomes, w \in Writes : EventCall(o, w)
    \/ EventPublishEnd

\* subscribe on one thread, first statement: the append to the list of the type.
SubscribeAppend(t, h, p) ==
    /\ BusIdle
    /\ thrSub = <<>>
    /\ TotalSubs < MaxSubs
    /\ Len(LogOf(t)) < MaxSubs
    /\ subscribers' = Bind(subscribers, t, Append(ListOf(t), <<h, p>>))
    /\ subLog' = Bind(subLog, t, Append(LogOf(t), <<h, p>>))
    /\ removed' = removed \ {<<t, h>>}
    /\ dropped' = (dropped /\ <<t, h>> # Watched)
    /\ thrSub' = <<t, h, p>>
    /\ UNCHANGED <<pubPc, pubType, iterList, iterIdx, iterLive, pubStart, pubAdded, calls,
                   thrUns>>
    /\ UNCHANGED <<asyncVars, eventVars, cfgVars, taskVars, chainVars, pmVars, orchVars>>

\* subscribe, second statement: the sort of the list the key is bound to now.
SubscribeSort ==
    /\ thrSub # <<>>
    /\ subscribers' = Bind(subscribers, thrSub[1], ListSort(ListOf(thrSub[1])))
    /\ thrSub' = <<>>
    /\ UNCHANGED <<subLog, removed, dropped, pubPc, pubType, iterList, iterIdx, iterLive,
                   pubStart, pubAdded, calls, thrUns>>
    /\ UNCHANGED <<asyncVars, eventVars, cfgVars, taskVars, chainVars, pmVars, orchVars>>

\* unsubscribe on another thread, up to the end of the list comprehension:
\* the membership test, and the new list built from the list read.
UnsubscribeRead(t, h) ==
    /\ BusIdle
    /\ thrUns = <<>>
    /\ t \in DOMAIN subscribers
    /\ thrUns' = <<t, h, WithoutCallback(subscribers[t], h)>>
    /\ UNCHANGED <<subscribers, subLog, removed, dropped, pubPc, pubType, iterList, iterIdx,
                   iterLive, pubStart, pubAdded, calls, thrSub>>
    /\ UNCHANGED <<asyncVars, eventVars, cfgVars, taskVars, chainVars, pmVars, orchVars>>

\* unsubscribe, the store: the key is bound to the list built before.
UnsubscribeStore ==
    /\ thrUns # <<>>
    /\ subscribers' = Bind(subscribers, thrUns[1], thrUns[3])
    /\ subLog' = Bind(subLog, thrUns[1], SelectSeq(LogOf(thrUns[1]), LAMBDA e : e[1] # thrUns[2]))
    /\ removed' = removed \cup {<<thrUns[1], thrUns[2]>>}
    /\ thrUns' = <<>>
    /\ UNCHANGED <<dropped, pubPc, pubType, iterList, iterIdx, iterLive, pubStart, pubAdded,
                   calls, thrSub>>
    /\ UNCHANGED <<asyncVars, eventVars, cfgVars, taskVars, chainVars, pmVars, orchVars>>

\* subscribe and unsubscribe called from two threads, on one event type.
BusThreadsNext ==
    \/ \E h \in Handlers, p \in Priorities : SubscribeAppend(Watched[1], h, p)
    \/ SubscribeSort
    \/ \E h \in Handlers : UnsubscribeRead(Watched[1], h)
    \/ UnsubscribeStore

\* The bus with handlers that subscribe and unsubscribe while they are
\* being dispatched to, on one event type.
BusReentrantNext ==
    \/ \E h \in Handlers, p \in Priorities : Subscribe(Watched[1], h, p)
    \/ PublishBegin(Watched[1])
    \/ \E o \in Outcomes : PublishCall(o)
    \/ \E o \in Outcomes, h \in Handlers, p \in Priorities : PublishCallSubscribes(o, h, p)
    \/ \E o \in Outcomes, h \in Handlers : PublishCallUnsubscribes(o, h)
    \/ PublishEnd

(***************************************************************************)
(* AsyncWidget / AsyncWorker                                               *)
(***************************************************************************)
TaskIds == 1..MaxTasks

\* Task ids are handed out in submission order.
Submitted == {t \in TaskIds : tState[t] # "new"}

\* A variant in which the worker stays with the thread that made it.
CallableThreadUnmoved == "submitter"

\* worker.moveToThread(thread); thread.started.connect(worker.run): run is a
\* method of the worker, so the started signal has it called on the thread
\* the worker lives on.
CallableThread == "worker"

\* A variant whose except branch emits nothing.
WorkerSignalDropsError(o, v) ==
    IF o = "return" THEN <<"taskFinished", v>> ELSE <<"none", "str(e)">>

\* A variant that emits taskFinished from the except branch too.
WorkerSignalAlwaysFinished(o, v) == <<"taskFinished", v>>

\* AsyncWorker.run: taskFinished.emit(result) after the call returned,
\* taskError.emit(str(e)) when it raised.
WorkerSignal(o, v) ==
    IF o = "return" THEN <<"taskFinished", v>> ELSE <<"taskError", "str(e)">>

\* A variant that keeps no reference to the handle.
NotStored(l, t) == l

\* self.tasks.append((thread, worker))
StoreTask(l, t) == Append(l, t)

\* A variant that empties the list.
CleanupClears(l, t) == <<>>

\* _cleanup_task: if (thread, worker) in self.tasks: self.tasks.remove(...)
CleanupTask(l, t) ==
    IF \E i \in 1..Len(l) : l[i] = t
    THEN LET k == CHOOSE i \in 1..Len(l) : l[i] = t /\ \A j \in 1..(i - 1) : l[j] # t
         IN  SubSeq(l, 1, k - 1) \o SubSeq(l, k + 1, Len(l))
    ELSE l

\* run_async: thread and worker are created and connected, the handle is
\* stored, the thread is started and the worker returned.
DoRunAsync(hc, he) ==
    /\ Submitted # TaskIds
    /\ LET t == Cardinality(Submitted) + 1
       IN  /\ tasks' = StoreTask(tasks, t)
           /\ tState' = [tState EXCEPT ![t] = "running"]
           /\ tCallbacks' = [tCallbacks EXCEPT ![t] = <<hc, he>>]
    /\ UNCHANGED <<tReturned, tRanOn, tSignal, completeCalls, errorCalls, surfaces>>

RunAsync(hc, he) ==
    /\ DoRunAsync(hc, he)
    /\ UNCHANGED nonTask

\* run_async called by the on_complete callback of task p while it runs, as
\* _on_data_generated does to have the chart made.
RunAsyncFromCallback(p, hc, he) ==
    /\ tState[p] = "inCallback"
    /\ tSignal[p][1] = "taskFinished"
    /\ DoRunAsync(hc, he)
    /\ tParent' = [tParent EXCEPT ![Cardinality(Submitted) + 1] = p]
    /\ UNCHANGED <<busVars, thrVars, asyncVars, eventVars, cfgVars, pmVars, orchVars>>

\* AsyncWorker.run on the worker thread: the callable returns v or raises, and
\* the matching signal is emitted.
WorkerRun(t, o, v) ==
    /\ tState[t] = "running"
    /\ tReturned' = [tReturned EXCEPT ![t] = IF o = "return" THEN <<"return", v>> ELSE <<"raise">>]
    /\ tRanOn' = [tRanOn EXCEPT ![t] = CallableThread]
    /\ tSignal' = [tSignal EXCEPT ![t] = WorkerSignal(o, v)]
    /\ tState' = [tState EXCEPT ![t] = "emitted"]
    /\ UNCHANGED <<tasks, tCallbacks, completeCalls, errorCalls, surfaces>>
    /\ UNCHANGED nonTask

\* _on_task_complete up to the callback: thread.quit(), then callback(result)
\* when one was given; with none the handler goes straight to the cleanup.
OnTaskComplete(t) ==
    /\ tState[t] = "emitted"
    /\ tSignal[t][1] = "taskFinished"
    /\ IF tCallbacks[t][1]
       THEN /\ completeCalls' = [completeCalls EXCEPT ![t] = Append(@, tSignal[t][2])]
            /\ tState' = [tState EXCEPT ![t] = "inCallback"]
            /\ UNCHANGED tasks
       ELSE /\ tasks' = CleanupTask(tasks, t)
            /\ tState' = [tState EXCEPT ![t] = "done"]
            /\ UNCHANGED completeCalls
    /\ UNCHANGED <<tCallbacks, tReturned, tRanOn, tSignal, errorCalls, surfaces>>
    /\ UNCHANGED nonTask

\* A variant that shows nothing when no callback was given.
ErrorSurfaceSilent(given) == IF given THEN "callback" ELSE "none"

\* if callback: callback(error) / else: QMessageBox.critical(...)
ErrorSurface(given) == IF given THEN "callback" ELSE "dialog"

\* _on_task_error up to the callback: thread.quit(), the log line, then
\* callback(error) when one was given and the QMessageBox otherwise.
OnTaskError(t) ==
    /\ tState[t] = "emitted"
    /\ tSignal[t][1] = "taskError"
    /\ LET surface == ErrorSurface(tCallbacks[t][2])
       IN  /\ errorCalls' = IF surface = "callback"
                            THEN [errorCalls EXCEPT ![t] = Append(@, tSignal[t][2])]
                            ELSE errorCalls
           /\ surfaces' = IF surface = "dialog"
                          THEN [surfaces EXCEPT ![t] = @ + 1]
                          ELSE surfaces
           /\ tState' = [tState EXCEPT ![t] =
                             IF surface = "callback" THEN "inCallback" ELSE "inDialog"]
    /\ UNCHANGED <<tasks, tCallbacks, tReturned, tRanOn, tSignal, completeCalls>>
    /\ UNCHANGED nonTask

\* The callback returned: the handler goes on to self._cleanup_task(...).
CallbackReturns(t) ==
    /\ tState[t] = "inCallback"
    /\ tasks' = CleanupTask(tasks, t)
    /\ tState' = [tState EXCEPT ![t] = "done"]
    /\ UNCHANGED <<tCallbacks, tReturned, tRanOn, tSignal, completeCalls, errorCalls, surfaces>>
    /\ UNCHANGED nonTask

\* The callback raised: the exception leaves the handler before the cleanup.
CallbackRaises(t) ==
    /\ tState[t] = "inCallback"
    /\ tState' = [tState EXCEPT ![t] = "aborted"]
    /\ UNCHANGED <<tasks, tCallbacks, tReturned, tRanOn, tSignal, completeCalls, errorCalls, surfaces>>
    /\ UNCHANGED nonTask

\* The modal error dialog was closed: the handler goes on to the cleanup.
DialogClosed(t) ==
    /\ tState[t] = "inDialog"
    /\ tasks' = CleanupTask(tasks, t)
    /\ tState' = [tState EXCEPT ![t] = "done"]
    /\ UNCHANGED <<tCallbacks, tReturned, tRanOn, tSignal, completeCalls, errorCalls, surfaces>>
    /\ UNCHANGED nonTask

\* The completions of task t that reached a callback or the dialog.
Deliveries(t) == Len(completeCalls[t]) + Len(errorCalls[t]) + surfaces[t]

\* The holder of the worker run_async returned calls worker.run() again once
\* the completion handler is over: the callable runs and its signal is
\* emitted again, through the connections run_async made.
WorkerRerun(t, o, v) ==
    /\ tState[t] \in {"done", "aborted"}
    /\ Deliveries(t) < MaxDeliveries
    /\ tReturned' = [tReturned EXCEPT ![t] = IF o = "return" THEN <<"return", v>> ELSE <<"raise">>]
    /\ tRanOn' = [tRanOn EXCEPT ![t] = "submitter"]
    /\ tSignal' = [tSignal EXCEPT ![t] = WorkerSignal(o, v)]
    /\ tState' = [tState EXCEPT ![t] = "emitted"]
    /\ UNCHANGED <<tasks, tCallbacks, completeCalls, errorCalls, surfaces>>
    /\ UNCHANGED nonTask

\* A variant that drops the last handle of the list.
ListPop(l, t) == SubSeq(l, 1, Len(l) - 1)

\* self.tasks.remove(x): the first entry equal to x goes.
ListRemove(l, t) ==
    LET k == CHOOSE i \in 1..Len(l) : l[i] = t /\ \A j \in 1..(i - 1) : l[j] # t
    IN  SubSeq(l, 1, k - 1) \o SubSeq(l, k + 1, Len(l))

\* The callback returned and _cleanup_task evaluates its membership test,
\* as a step of its own: other threads may act before the remove.
CleanupTest(t) ==
    /\ tState[t] = "inCallback"
    /\ tState' = [tState EXCEPT ![t] =
                      IF \E i \in 1..Len(tasks) : tasks[i] = t THEN "removing" ELSE "done"]
    /\ UNCHANGED <<tasks, tCallbacks, tReturned, tRanOn, tSignal, completeCalls, errorCalls,
                   surfaces>>
    /\ UNCHANGED nonTask

\* self.tasks.remove((thread, worker)), one call of the interpreter.
CleanupRemove(t) ==
    /\ tState[t] = "removing"
    /\ \E i \in 1..Len(tasks) : tasks[i] = t
    /\ tasks' = ListRemove(tasks, t)
    /\ tState' = [tState EXCEPT ![t] = "done"]
    /\ UNCHANGED <<tCallbacks, tReturned, tRanOn, tSignal, completeCalls, errorCalls,
                   surfaces>>
    /\ UNCHANGED nonTask

TaskInit ==
    /\ tasks = <<>>
    /\ tState = [t \in TaskIds |-> "new"]
    /\ tCallbacks = [t \in TaskIds |-> <<FALSE, FALSE>>]
    /\ tReturned = [t \in TaskIds |-> <<>>]
    /\ tRanOn = [t \in TaskIds |-> "none"]
    /\ tSignal = [t \in TaskIds |-> <<>>]
    /\ completeCalls = [t \in TaskIds |-> <<>>]
    /\ errorCalls = [t \in TaskIds |-> <<>>]
    /\ surfaces = [t \in TaskIds |-> 0]
    /\ tParent = [t \in TaskIds |-> 0]

TaskNext ==
    \/ \E hc \in BOOLEAN, he \in BOOLEAN : RunAsync(hc, he)
    \/ \E t \in TaskIds, o \in Outcomes, v \in Values : WorkerRun(t, o, v)
    \/ \E t \in TaskIds : OnTaskComplete(t)
    \/ \E t \in TaskIds : OnTaskError(t)
    \/ \E t \in TaskIds : CallbackReturns(t)
    \/ \E t \in TaskIds : CallbackRaises(t)
    \/ \E t \in TaskIds : DialogClosed(t)

\* The task runner with completion handlers that run on threads of their
\* own, _cleanup_task taken one interpreter call at a time.
TaskThreadsNext ==
    \/ RunAsync(TRUE, TRUE)
    \/ \E t \in TaskIds, o \in Outcomes, v \in Values : WorkerRun(t, o, v)
    \/ \E t \in TaskIds : OnTaskComplete(t)
    \/ \E t \in TaskIds : OnTaskError(t)
    \/ \E t \in TaskIds : CleanupTest(t)
    \/ \E t \in TaskIds : CleanupRemove(t)

\* The task runner with on_complete callbacks that submit further tasks.
TaskChainNext ==
    \/ \E hc \in BOOLEAN, he \in BOOLEAN : RunAsync(hc, he)
    \/ \E p \in TaskIds, hc \in BOOLEAN, he \in BOOLEAN : RunAsyncFromCallback(p, hc, he)
    \/ \E t \in TaskIds, o \in Outcomes, v \in Values : WorkerRun(t, o, v)
    \/ \E t \in TaskIds : OnTaskComplete(t)
    \/ \E t \in TaskIds : OnTaskError(t)
    \/ \E t \in TaskIds : CallbackReturns(t)
    \/ \E t \in TaskIds : DialogClosed(t)

\* The task runner with workers that are run again.
TaskRerunNext ==
    \/ \E hc \in BOOLEAN, he \in BOOLEAN : RunAsync(hc, he)
    \/ \E t \in TaskIds, o \in Outcomes, v \in Values : WorkerRun(t, o, v)
    \/ \E t \in TaskIds : OnTaskComplete(t)
    \/ \E t \in TaskIds : OnTaskError(t)
    \/ \E t \in TaskIds : CallbackReturns(t)
    \/ \E t \in TaskIds : CallbackRaises(t)
    \/ \E t \in TaskIds : DialogClosed(t)
    \/ \E t \in TaskIds, o \in Outcomes, v \in Values : WorkerRerun(t, o, v)

(***************************************************************************)
(* PluginManager                                                           *)
(***************************************************************************)
\* A plugin class found in a candidate: the name its instances report, and
\* whether item() and plugin_instance.name succeed. A class for which they do
\* not never gets to report a name, so those classes are all alike.
PluginClasses ==
    [name : PluginNames, constructs : {TRUE}] \cup {[name |-> "finance", constructs |-> FALSE]}

ClassLists == UNION {[1..n -> PluginClasses] : n \in 0..MaxClasses}

\* A candidate package: whether its import succeeds, and the plugin classes
\* dir(module) yields, in that order.
Candidates ==
    {[loads |-> FALSE, classes |-> <<>>]} \cup [loads : {TRUE}, classes : ClassLists]

\* The candidate raises inside its try block: the import fails or one of its
\* classes does.
Broken(c) == ~c.loads \/ \E i \in 1..Len(c.classes) : ~c.classes[i].constructs

\* The classes of c the class loop gets through before it is left: all of
\* them, or those before the first that raises.
Constructed(c) ==
    IF ~c.loads THEN <<>>
    ELSE LET bad == {i \in 1..Len(c.classes) : ~c.classes[i].constructs}
         IN  IF bad = {} THEN c.classes
             ELSE SubSeq(c.classes, 1, (CHOOSE i \in bad : \A j \in bad : i <= j) - 1)

HasKey(d, k) == \E i \in 1..Len(d) : d[i][1] = k

\* A variant that keeps the entry a name already has.
DictSetDefault(d, k, v) == IF HasKey(d, k) THEN d ELSE Append(d, <<k, v>>)

\* self.plugins[name] = instance: a new key goes to the end, an existing key
\* keeps its place and takes the new value.
DictSet(d, k, v) ==
    IF HasKey(d, k)
    THEN [i \in 1..Len(d) |-> IF d[i][1] = k THEN <<k, v>> ELSE d[i]]
    ELSE Append(d, <<k, v>>)

\* get_plugin: self.plugins.get(plugin_name), 0 standing for None.
GetPlugin(k) ==
    IF HasKey(plugins, k) THEN plugins[CHOOSE i \in 1..Len(plugins) : plugins[i][1] = k][2]
    ELSE 0

\* The class loop of one candidate: each class constructed is stored under its
\* name; ids are handed out in construction order, starting after n.
RECURSIVE StoreAll(_, _, _)
StoreAll(d, cls, n) ==
    IF cls = <<>> THEN d
    ELSE StoreAll(DictSet(d, cls[1].name, n + 1), Tail(cls), n + 1)

\* discover_plugins up to the candidate loop: the plugins package is imported
\* (or its directory listed) and the source yields its candidates.
DoDiscoverBegin(n) ==
    /\ pmPc = "idle"
    /\ pmPc' = "discovering"
    /\ toScan' = n
    /\ scanned' = 0
    /\ pmOp' = "discover"
    /\ opLog' = <<>>
    /\ opRaised' = FALSE
    /\ UNCHANGED <<plugins, instances, initState>>

DiscoverBegin(n) ==
    /\ DoDiscoverBegin(n)
    /\ UNCHANGED nonPlugin

\* One pass of the candidate loop: import, class loop, and the except clause
\* that logs a failure of either and goes on with the next candidate.
ScanCandidate(c) ==
    /\ pmPc = "discovering"
    /\ scanned < toScan
    /\ Len(instances) + Len(Constructed(c)) <= MaxInst
    /\ plugins' = StoreAll(plugins, Constructed(c), Len(instances))
    /\ instances' = instances \o
           [i \in 1..Len(Constructed(c)) |->
               [name |-> Constructed(c)[i].name, fromBroken |-> Broken(c)]]
    /\ scanned' = scanned + 1
    /\ UNCHANGED <<pmPc, toScan, pmOp, opLog, opRaised, initState>>
    /\ UNCHANGED nonPlugin

\* The candidate loop is exhausted: discover_plugins returns.
DiscoverReturning == pmPc = "discovering" /\ scanned = toScan

DoDiscoverEnd ==
    /\ DiscoverReturning
    /\ pmPc' = "idle"
    /\ UNCHANGED <<plugins, instances, toScan, scanned, pmOp, opLog, opRaised, initState>>

DiscoverEnd ==
    /\ DoDiscoverEnd
    /\ UNCHANGED nonPlugin

\* A variant with no try/except around plugin.initialize().
AfterInitializeUncaught(o) == IF o = "raise" THEN "propagate" ELSE "next"

\* try: plugin.initialize() / except Exception: log -- the loop goes on.
AfterInitialize(o) == "next"

\* A variant with no try/except around plugin.shutdown().
AfterShutdownUncaught(o) == IF o = "raise" THEN "propagate" ELSE "next"

\* try: plugin.shutdown() / except Exception: log -- the loop goes on.
AfterShutdown(o) == "next"

\* for plugin_name, plugin in self.plugins.items(): the calls made from entry
\* i on, outs[i] being what the call on entry i does, and whether an exception
\* left the loop. after is "next" or "propagate" per outcome.
RECURSIVE LifecycleLoop(_, _, _, _)
LifecycleLoop(d, outs, i, after) ==
    IF i > Len(d) THEN [made |-> <<>>, raised |-> FALSE]
    ELSE IF after[outs[i]] = "next"
         THEN LET rest == LifecycleLoop(d, outs, i + 1, after)
              IN  [made |-> <<<<d[i][2], outs[i]>>>> \o rest.made, raised |-> rest.raised]
         ELSE [made |-> <<<<d[i][2], outs[i]>>>>, raised |-> TRUE]

\* The outcome of the last initialize() of each instance, after calls.
InitStateAfter(made) ==
    [x \in DOMAIN initState |->
        IF \E j \in 1..Len(made) : made[j][1] = x
        THEN LET k == CHOOSE j \in 1..Len(made) : made[j][1] = x
             IN  IF made[k][2] = "return" THEN "ok" ELSE "failed"
        ELSE initState[x]]

\* A variant whose except clause deletes the plugin whose initialize() raised.
RegistryDroppingFailed(d, made) ==
    SelectSeq(d, LAMBDA e : \A j \in 1..Len(made) : made[j] # <<e[2], "raise">>)

\* initialize_plugins reads self.plugins.items() and assigns nothing to
\* self.plugins: its except clause only logs.
RegistryAfterInitialize(d, made) == d

DoInitializePlugins(outs) ==
    /\ pmPc = "idle"
    /\ LET r == LifecycleLoop(plugins, outs, 1, [o \in Outcomes |-> AfterInitialize(o)])
       IN  /\ opLog' = r.made
           /\ opRaised' = r.raised
           /\ initState' = InitStateAfter(r.made)
           /\ plugins' = RegistryAfterInitialize(plugins, r.made)
    /\ pmOp' = "initialize"
    /\ UNCHANGED <<instances, pmPc, toScan, scanned>>

InitializePlugins(outs) ==
    /\ DoInitializePlugins(outs)
    /\ UNCHANGED nonPlugin

DoShutdownPlugins(outs) ==
    /\ pmPc = "idle"
    /\ LET r == LifecycleLoop(plugins, outs, 1, [o \in Outcomes |-> AfterShutdown(o)])
       IN  /\ opLog' = r.made
           /\ opRaised' = r.raised
    /\ pmOp' = "shutdown"
    /\ UNCHANGED <<plugins, instances, pmPc, toScan, scanned, initState>>

ShutdownPlugins(outs) ==
    /\ DoShutdownPlugins(outs)
    /\ UNCHANGED nonPlugin

PluginInit ==
    /\ plugins = <<>>
    /\ instances = <<>>
    /\ pmPc = "idle"
    /\ toScan = 0
    /\ scanned = 0
    /\ pmOp = "none"
    /\ opLog = <<>>
    /\ opRaised = FALSE
    /\ initState = [x \in 1..MaxInst |-> "none"]

PluginNext ==
    \/ \E n \in 0..MaxCandidates : DiscoverBegin(n)
    \/ \E c \in Candidates : ScanCandidate(c)
    \/ DiscoverEnd
    \/ \E outs \in [1..Len(plugins) -> Outcomes] : InitializePlugins(outs)
    \/ \E outs \in [1..Len(plugins) -> Outcomes] : ShutdownPlugins(outs)

(***************************************************************************)
(* ApplicationOrchestrator                                                 *)
(***************************************************************************)
\* The config_path given to initialize: none, a file that loads, or one for
\* which open, json.load or the merge raises.
ConfigPaths == {"none", "readable", "unreadable"}
\* Names and instances given to register_service.
ServiceNames == {"export", "r"}
ServiceInstances == {"s1", "s2"}

\* A variant of initialize that sets the plugins up first.
InitializeStepsPluginsFirst ==
    <<"discover_plugins", "initialize_plugins", "load_config", "bus_initialize">>

\* The statements of initialize, in the order of the method body.
InitializeSteps ==
    <<"load_config", "bus_initialize", "discover_plugins", "initialize_plugins">>

\* A variant of shutdown that clears the bus first.
ShutdownStepsBusFirst == <<"bus_shutdown", "shutdown_plugins">>

\* The statements of shutdown, in the order of the method body.
ShutdownSteps == <<"shutdown_plugins", "bus_shutdown">>

Steps(op) == IF op = "initialize" THEN InitializeSteps ELSE ShutdownSteps

OrchIdle == orchStep = 0

\* The method in progress is at statement s.
AtStep(s) == ~OrchIdle /\ Steps(orchOp)[orchStep] = s

\* Statement s is over: the next one is up, or the method returns, or the
\* exception the statement raised leaves the method (it has no try).
StepDone(s, raised) ==
    /\ orchTrace' = Append(orchTrace, s)
    /\ orchRaised' = raised
    /\ orchStep' = IF raised \/ orchStep = Len(Steps(orchOp)) THEN 0 ELSE orchStep + 1
    /\ UNCHANGED orchOp

\* A call of a method of the orchestrator, up to its first statement.
OrchCall(op) ==
    /\ OrchIdle
    /\ pmPc = "idle"
    /\ BusIdle
    /\ orchOp' = op
    /\ orchStep' = 1
    /\ orchTrace' = <<>>
    /\ orchRaised' = FALSE
    /\ UNCHANGED <<config, loop, services, lastReg>>
    /\ UNCHANGED <<busVars, pmVars>>
    /\ UNCHANGED nonOrch

OrchInitialize == OrchCall("initialize")

OrchShutdown == OrchCall("shutdown")

\* What load_from_file does with the file.
LoadOutcome(path) == IF path = "readable" THEN "return" ELSE "raise"

\* A variant of load_from_file with no try/except.
AfterLoadUncaught(o) == IF o = "raise" THEN "propagate" ELSE "next"

\* load_from_file: try: open, json.load, _merge_config / except Exception: log.
AfterLoad(o) == "next"

\* if config_path: self.config_manager.load_from_file(config_path), path
\* being the config_path initialize was given.
OrchLoadConfig(path) ==
    /\ AtStep("load_config")
    /\ config' = IF path = "readable" THEN "merged" ELSE config
    /\ StepDone("load_config", path # "none" /\ AfterLoad(LoadOutcome(path)) = "propagate")
    /\ UNCHANGED <<loop, services, lastReg>>
    /\ UNCHANGED <<busVars, pmVars>>
    /\ UNCHANGED nonOrch

\* self.event_bus.initialize(): the loop is got, or made on RuntimeError.
OrchBusInitialize ==
    /\ AtStep("bus_initialize")
    /\ loop' = TRUE
    /\ StepDone("bus_initialize", FALSE)
    /\ UNCHANGED <<config, services, lastReg>>
    /\ UNCHANGED <<busVars, pmVars>>
    /\ UNCHANGED nonOrch

\* self.plugin_manager.discover_plugins(), up to its candidate loop; the
\* passes of the loop are ScanCandidate.
OrchDiscoverBegin(n) ==
    /\ AtStep("discover_plugins")
    /\ DoDiscoverBegin(n)
    /\ UNCHANGED orchVars
    /\ UNCHANGED busVars
    /\ UNCHANGED nonOrch

\* discover_plugins returns to initialize.
OrchDiscoverEnd ==
    /\ AtStep("discover_plugins")
    /\ DoDiscoverEnd
    /\ StepDone("discover_plugins", FALSE)
    /\ UNCHANGED <<config, loop, services, lastReg>>
    /\ UNCHANGED busVars
    /\ UNCHANGED nonOrch

\* self.plugin_manager.initialize_plugins()
OrchInitializePlugins(outs) ==
    /\ AtStep("initialize_plugins")
    /\ DoInitializePlugins(outs)
    /\ StepDone("initialize_plugins", opRaised')
    /\ UNCHANGED <<config, loop, services, lastReg>>
    /\ UNCHANGED busVars
    /\ UNCHANGED nonOrch

\* self.plugin_manager.shutdown_plugins()
OrchShutdownPlugins(outs) ==
    /\ AtStep("shutdown_plugins")
    /\ DoShutdownPlugins(outs)
    /\ StepDone("shutdown_plugins", opRaised')
    /\ UNCHANGED <<config, loop, services, lastReg>>
    /\ UNCHANGED busVars
    /\ UNCHANGED nonOrch

\* self.event_bus.shutdown()
OrchBusShutdown ==
    /\ AtStep("bus_shutdown")
    /\ DoBusShutdown
    /\ StepDone("bus_shutdown", FALSE)
    /\ UNCHANGED <<config, loop, services, lastReg>>
    /\ UNCHANGED pmVars
    /\ UNCHANGED nonOrch

\* get_service: self.services.get(service_name), "None" when there is no key.
GetService(k) ==
    IF HasKey(services, k)
    THEN services[CHOOSE i \in 1..Len(services) : services[i][1] = k][2]
    ELSE "None"

\* register_service: self.services[service_name] = service_instance
RegisterService(k, v) ==
    /\ services' = DictSet(services, k, v)
    /\ lastReg' = [lastReg EXCEPT ![k] = v]
    /\ UNCHANGED <<orchOp, orchStep, orchTrace, orchRaised, config, loop>>
    /\ UNCHANGED <<busVars, pmVars>>
    /\ UNCHANGED nonOrch

\* A subscription host code or a plugin makes on the orchestrator's bus.
OrchSubscribe == Subscribe("tick", "A", 10)

\* The candidates the orchestrator's discovery is run on: at most one plugin
\* class each.
OrchCandidates == {c \in Candidates : Len(c.classes) <= 1}

OrchInit ==
    /\ orchOp = "none"
    /\ orchStep = 0
    /\ orchTrace = <<>>
    /\ orchRaised = FALSE
    /\ config = "defaults"
    /\ loop = FALSE
    /\ services = <<>>
    /\ lastReg = [k \in ServiceNames |-> "None"]

OrchNext ==
    \/ OrchInitialize
    \/ OrchShutdown
    \/ \E path \in ConfigPaths : OrchLoadConfig(path)
    \/ OrchBusInitialize
    \/ \E n \in 0..MaxCandidates : OrchDiscoverBegin(n)
    \/ \E c \in OrchCandidates : ScanCandidate(c)
    \/ OrchDiscoverEnd
    \/ \E outs \in [1..Len(plugins) -> Outcomes] : OrchInitializePlugins(outs)
    \/ \E outs \in [1..Len(plugins) -> Outcomes] : OrchShutdownPlugins(outs)
    \/ OrchBusShutdown
    \/ OrchSubscribe

\* The orchestrator with its service registry in use.
ServicesNext ==
    \/ OrchInitialize
    \/ OrchShutdown
    \/ OrchLoadConfig("none")
    \/ OrchBusInitialize
    \/ \E n \in 0..MaxCandidates : OrchDiscoverBegin(n)
    \/ \E c \in OrchCandidates : ScanCandidate(c)
    \/ OrchDiscoverEnd
    \/ \E outs \in [1..Len(plugins) -> Outcomes] : OrchInitializePlugins(outs)
    \/ \E outs \in [1..Len(plugins) -> Outcomes] : OrchShutdownPlugins(outs)
    \/ OrchBusShutdown
    \/ \E k \in ServiceNames, v \in ServiceInstances : RegisterService(k, v)

(***************************************************************************)
(* ConfigurationManager                                                    *)
(***************************************************************************)
\* Section and key strings, and the values stored under keys.
Sections == {"app", "extra"}
Keys == {"name", "theme"}
CfgValues == {"v1", "v2"}

\* What self.config can hold for a section: no entry, a dict of keys, or a
\* value that is not a dict (a number, a string, a list, null).
NoItems == [k \in Keys |-> "absent"]
NoSection == [kind |-> "absent", items |-> NoItems]
NotADict == [kind |-> "scalar", items |-> NoItems]
DictOf(items) == [kind |-> "dict", items |-> items]

\* load_defaults: the literal assigned to self.config, every section a dict.
DefaultConfig == [s \in Sections |->
                    IF s = "app" THEN DictOf([k \in Keys |-> IF k = "name" THEN "v1" ELSE "absent"])
                    ELSE NoSection]

\* The objects json.load can hand to _merge_config: per section nothing, a
\* dict, or a value that is not a dict.
FileConfigs ==
    [Sections -> {NoSection, NotADict} \cup {DictOf(f) : f \in [Keys -> {"absent", "v2"}]}]

\* The order in which new_config.items() yields the sections.
SectionOrder == <<"app", "extra">>

\* if section not in self.config: self.config[section] = {}
WithSection(c, s) == IF c[s].kind = "absent" THEN [c EXCEPT ![s] = DictOf(NoItems)] ELSE c

\* else: self.config[section] = section_config
StoreNotADict(c, s) == [c EXCEPT ![s] = NotADict]

\* _merge_config from the i-th section on. self.config[section][key] = value
\* raises TypeError when what is stored under the section is not a dict.
RECURSIVE MergeConfig(_, _, _)
MergeConfig(c, new, i) ==
    IF i > Len(SectionOrder) THEN [cfg |-> c, raised |-> FALSE]
    ELSE LET s == SectionOrder[i]
             c1 == WithSection(c, s)
         IN  IF new[s].kind = "absent" THEN MergeConfig(c, new, i + 1)
             ELSE IF new[s].kind = "scalar" THEN MergeConfig(StoreNotADict(c1, s), new, i + 1)
             ELSE IF new[s].items = NoItems THEN MergeConfig(c1, new, i + 1)
             ELSE IF c1[s].kind = "scalar" THEN [cfg |-> c1, raised |-> TRUE]
             ELSE MergeConfig(
                      [c1 EXCEPT ![s] = DictOf([k \in Keys |->
                           IF new[s].items[k] # "absent" THEN new[s].items[k]
                           ELSE c1[s].items[k]])],
                      new, i + 1)

LoadDefaults ==
    /\ cfg' = DefaultConfig
    /\ cfgOut' = [op |-> "load_defaults", section |-> "none", key |-> "none", result |-> "none"]
    /\ UNCHANGED nonConfig

\* load_from_file of a file that opens and parses: the merge, and the
\* except clause that logs whatever the merge raised.
LoadFromFile(new) ==
    /\ cfg' = MergeConfig(cfg, new, 1).cfg
    /\ cfgOut' = [op |-> "load_from_file", section |-> "none", key |-> "none", result |-> "none"]
    /\ UNCHANGED nonConfig

\* get: self.config[section][key], the default on KeyError; any other
\* exception leaves get.
GetResult(c, s, k) ==
    IF c[s].kind = "absent" THEN "default"
    ELSE IF c[s].kind = "scalar" THEN "raise"
    ELSE IF c[s].items[k] = "absent" THEN "default"
    ELSE c[s].items[k]

ConfigGet(s, k) ==
    /\ cfgOut' = [op |-> "get", section |-> s, key |-> k, result |-> GetResult(cfg, s, k)]
    /\ UNCHANGED cfg
    /\ UNCHANGED nonConfig

ConfigSet(s, k, v) ==
    /\ cfg' = IF WithSection(cfg, s)[s].kind = "scalar" THEN cfg
              ELSE [cfg EXCEPT ![s] = DictOf([WithSection(cfg, s)[s].items EXCEPT ![k] = v])]
    /\ cfgOut' = [op |-> "set", section |-> s, key |-> k,
                  result |-> IF cfg[s].kind = "scalar" THEN "raise" ELSE "none"]
    /\ UNCHANGED nonConfig

ConfigInit ==
    /\ cfg = DefaultConfig
    /\ cfgOut = [op |-> "load_defaults", section |-> "none", key |-> "none", result |-> "none"]

ConfigNext ==
    \/ LoadDefaults
    \/ \E new \in FileConfigs : LoadFromFile(new)
    \/ \E s \in Sections, k \in Keys : ConfigGet(s, k)
    \/ \E s \in Sections, k \in Keys, v \in CfgValues : ConfigSet(s, k, v)

Init == BusInit /\ TaskInit /\ PluginInit /\ OrchInit /\ ConfigInit

Next == TaskChainNext \/ BusNext \/ BusReentrantNext \/ BusThreadsNext \/ BusAsyncNext \/ BusRoutingNext \/ BusEventNext \/ ConfigNext \/ TaskNext \/ TaskThreadsNext \/ TaskRerunNext \/ PluginNext \/ OrchNext \/ ServicesNext

Spec == Init /\ [][Next]_vars

SpecBus == Init /\ [][BusNext]_vars

SpecBusReentrant == Init /\ [][BusReentrantNext]_vars

SpecBusThreads == Init /\ [][BusThreadsNext]_vars

SpecBusAsync == Init /\ [][BusAsyncNext]_vars

SpecBusRouting == Init /\ [][BusRoutingNext]_vars

SpecBusEvent == Init /\ [][BusEventNext]_vars

SpecTask == Init /\ [][TaskNext]_vars

SpecTaskChain == Init /\ [][TaskChainNext]_vars

\* The worker thread gets to run every started worker, and the thread that
\* runs the completion handlers gets to run every handler whose signal was
\* emitted.
TaskFairness ==
    \A t \in TaskIds :
        /\ WF_vars(\E o \in Outcomes, v \in Values : WorkerRun(t, o, v))
        /\ WF_vars(OnTaskComplete(t))
        /\ WF_vars(OnTaskError(t))

SpecTaskFair == Init /\ [][TaskNext]_vars /\ TaskFairness

SpecTaskRerun == Init /\ [][TaskRerunNext]_vars

SpecTaskThreads == Init /\ [][TaskThreadsNext]_vars

SpecPlugin == Init /\ [][PluginNext]_vars

SpecOrch == Init /\ [][OrchNext]_vars

SpecServices == Init /\ [][ServicesNext]_vars

SpecConfig == Init /\ [][ConfigNext]_vars

(***************************************************************************)
(* Properties of the EventBus                                              *)
(***************************************************************************)
\* The for loop of publish has yielded every entry: publish returns next.
PublishReturning == pubPc = "dispatch" /\ iterIdx > Len(iterList)

\* The handlers called so far by the publish in progress, in call order.
CalledHandlers == [i \in 1..Len(calls) |-> calls[i][1]]

Max(S) == CHOOSE x \in S : \A y \in S : y <= x

\* The registrations of log, highest priority first, those of one priority in
\* the order of log.
RECURSIVE ByPriorityDesc(_, _)
ByPriorityDesc(log, P) ==
    IF P = {} THEN <<>>
    ELSE LET m == Max(P)
         IN  SelectSeq(log, LAMBDA e : e[2] = m) \o ByPriorityDesc(log, P \ {m})

\* The order in which a publish of type t is to call the handlers.
ExpectedOrder(t) ==
    LET o == ByPriorityDesc(LogOf(t), Priorities)
    IN  [i \in 1..Len(o) |-> o[i][1]]

\* C1: a publish calls the handlers registered for its type in descending
\* priority order, handlers of equal priority in the order of their subscribe
\* calls: at every point of the dispatch the calls made so far are the first
\* entries of that order, and when publish returns they are all of it.
C1_PublishOrder ==
    pubPc = "dispatch" =>
        /\ iterIdx - 1 <= Len(ExpectedOrder(pubType))
        /\ CalledHandlers = SubSeq(ExpectedOrder(pubType), 1, iterIdx - 1)
        /\ PublishReturning => CalledHandlers = ExpectedOrder(pubType)

\* A(5), B(10), C(5) subscribed in this order to "tick" were called B, A, C.
C1_Witness ==
    /\ PublishReturning
    /\ pubType = "tick"
    /\ LogOf("tick") = << <<"A", 5>>, <<"B", 10>>, <<"C", 5>> >>
    /\ CalledHandlers = <<"B", "A", "C">>

\* C2: a handler that raises during publish is contained: the exception never
\* reaches the publisher, and every registration after the failing one in the
\* dispatch order is called exactly once before publish returns.
C2_FailureContained ==
    /\ pubPc # "raised"
    /\ \A j \in 1..Len(calls) :
          (calls[j][2] = "raise" /\ PublishReturning) =>
              /\ Len(calls) = Len(iterList)
              /\ \A i \in (j + 1)..Len(iterList) : calls[i][1] = iterList[i][1]

\* A chain of three handlers whose middle one raised, all three called.
C2_Witness ==
    /\ PublishReturning
    /\ Len(iterList) = 3
    /\ Len(calls) = 3
    /\ calls[1][2] = "return"
    /\ calls[2][2] = "raise"
    /\ calls[3][2] = "return"

\* The number of registrations of handler h in list l.
Registrations(l, h) == Cardinality({i \in 1..Len(l) : l[i][1] = h})

\* C3: once unsubscribe(t, h) has returned, and until h is subscribed to t
\* again, the list of t holds no registration of h and no publish of t calls h.
C3_UnsubscribeRemovesAll ==
    \A r \in removed :
        /\ Registrations(ListOf(r[1]), r[2]) = 0
        /\ (pubPc = "dispatch" /\ pubType = r[1]) =>
              \A i \in 1..Len(calls) : calls[i][1] # r[2]

\* A publish of "tick" that called a handler after "A" was unsubscribed from it.
C3_Witness ==
    /\ <<"tick", "A">> \in removed
    /\ PublishReturning
    /\ pubType = "tick"
    /\ Len(calls) >= 1

\* C24: a call unsubscribe(t, h) leaves the table with the same keys, the
\* lists of the other types as they were, and the list of t as it was less
\* the entries of h -- the other entries with their priorities, in their
\* order; with no entry of h the table is as it was.
C24_UnsubscribeFrame ==
    [][\A t \in EventTypes, h \in Handlers :
          (<<t, h>> \notin removed /\ <<t, h>> \in removed') =>
              /\ DOMAIN subscribers' = DOMAIN subscribers
              /\ \A u \in DOMAIN subscribers :
                    subscribers'[u] =
                        IF u = t THEN SelectSeq(subscribers[u], LAMBDA e : e[1] # h)
                        ELSE subscribers[u]]_vars

\* "A" was unsubscribed from "tick": "B" and "C" are left in their order, and
\* "A" is still registered for "tock".
C24_Witness ==
    /\ <<"tick", "A">> \in removed
    /\ ListOf("tick") = <<<<"B", 5>>, <<"C", 5>>>>
    /\ ListOf("tock") = <<<<"A", 10>>>>

\* C29: the list of every event type is in descending priority order, the
\* entries of one priority in the order in which they were subscribed.
C29_ListsSorted ==
    \A t \in DOMAIN subscribers :
        /\ \A i \in 1..Len(subscribers[t]), j \in 1..Len(subscribers[t]) :
              i < j => subscribers[t][i][2] >= subscribers[t][j][2]
        /\ \A p \in Priorities :
              SelectSeq(subscribers[t], LAMBDA e : e[2] = p) =
                  SelectSeq(LogOf(t), LAMBDA e : e[2] = p)

\* "A"(5), "B"(10), "C"(5) were subscribed in this order: the list is B, A, C.
C29_Witness ==
    /\ LogOf("tick") = <<<<"A", 5>>, <<"B", 10>>, <<"C", 5>>>>
    /\ ListOf("tick") = <<<<"B", 10>>, <<"A", 5>>, <<"C", 5>>>>
    /\ BusIdle

\* The number of calls of h the publish in progress has made.
CallsOf(h) == Cardinality({i \in 1..Len(calls) : calls[i][1] = h})

\* C25: when handlers subscribe or unsubscribe for the type being published,
\* the publish still calls once per registration every handler that was
\* registered when it started and was not unsubscribed since: none is
\* skipped, none is called twice. (Handlers subscribed during the publish
\* are left out: their new registrations may or may not be visited.)
C25_DispatchUnaffected ==
    PublishReturning =>
        \A h \in Handlers :
            (<<pubType, h>> \notin removed /\ h \notin pubAdded) =>
                CallsOf(h) = Registrations(pubStart, h)

\* The passes of the loop of publish_async so far, in order.
Visits == SelectSeq(aLog, LAMBDA e : e[1] \in {"await", "submit", "nopool"})

\* C23: publish_async visits the handlers of the type in list order, which is
\* by descending priority; a visit of an asynchronous handler is awaited, and
\* no later handler is visited before that handler has completed; a visit of
\* an ordinary handler, on a bus that was initialized, hands the call to the
\* pool, and the loop has moved on whether or not the pool has run the call.
C23_AsyncDispatch ==
    /\ \A i \in 1..Len(Visits) :
          /\ Visits[i][2] = i
          /\ aList[i][1] \in AsyncHandlers => Visits[i][1] = "await"
          /\ (aList[i][1] \notin AsyncHandlers /\ loop) => Visits[i][1] = "submit"
    /\ \A i \in 1..(Len(aList) - 1) : aList[i][2] >= aList[i + 1][2]
    /\ \A k \in 1..Len(aLog), j \in 1..Len(aLog) :
          (j < k /\ aLog[j][1] = "await" /\ aLog[k][1] \in {"await", "submit", "nopool"}) =>
              \E m \in (j + 1)..(k - 1) : aLog[m] = <<"resumed", aLog[j][2]>>
    /\ aPc = "awaiting" => aList[aIdx][1] \in AsyncHandlers
    /\ \A i \in LogIdx("submit") : aIdx > i
    /\ LogIdx("ran") \subseteq LogIdx("submit")

\* A publish_async over B (ordinary, priority 10) and A (asynchronous,
\* priority 5) has returned: B was handed to the pool first, A was awaited
\* to completion after it, and the pool has not run B yet.
C23_Witness ==
    /\ aPc = "done"
    /\ loop
    /\ aList = <<<<"B", 10>>, <<"A", 5>>>>
    /\ aLog = <<<<"submit", 1>>, <<"await", 2>>, <<"resumed", 2>>>>

\* The passes of publish_async so far that started or handed over a call of h.
InvokedAsync(h) ==
    Cardinality({k \in 1..Len(aLog) : aLog[k][1] \in {"await", "submit"} /\ aList[aLog[k][2]][1] = h})

\* C31: routing is by equality of the event type only. While a publish or a
\* publish_async of type T runs, it has called no handler more often than
\* the handler is registered for T (so never a handler registered only for
\* another type), and when its loop is over it has called each handler once
\* per registration for T (publish_async: on an initialized bus); and the
\* start of a publish or publish_async changes nothing in the subscriber
\* table, in particular it adds no key for a type without subscribers.
C31_RoutingByType ==
    /\ [](/\ pubPc # "idle" =>
               \A h \in Handlers :
                   /\ CallsOf(h) <= Registrations(ListOf(pubType), h)
                   /\ PublishReturning => CallsOf(h) = Registrations(ListOf(pubType), h)
          /\ aPc \in {"dispatch", "awaiting"} =>
               \A h \in Handlers :
                   /\ InvokedAsync(h) <= Registrations(ListOf(aType), h)
                   /\ (loop /\ aPc = "dispatch" /\ aIdx > Len(aList)) =>
                         InvokedAsync(h) = Registrations(ListOf(aType), h))
    /\ [][((pubPc = "idle" /\ pubPc' # "idle") \/ (AsyncIdle /\ ~AsyncIdle')) =>
              subscribers' = subscribers]_vars

\* A publish of "tock" is about to return on a table whose only key is
\* "tick", with a handler registered: nothing was called and no key added.
C31_Witness ==
    /\ pubPc = "dispatch"
    /\ pubType = "tock"
    /\ PublishReturning
    /\ calls = <<>>
    /\ DOMAIN subscribers = {"tick"}
    /\ ListOf("tick") = <<<<"A", 10>>>>

\* C33: an Event is never mutated after construction: every callback called
\* in one publish is called with the event_type and the data the publisher
\* built the Event with, whatever the callbacks before it did with it.
C33_EventUnchanged ==
    \A i \in 1..Len(evSeen) : evSeen[i] = evSent

\* C34: after any sequence of load_defaults, load_from_file and set, every
\* section of the configuration is a mapping from key to value, and get
\* returns the value stored under the section and key, or the default when
\* there is none, and never raises.
C34_MappingOfMappings ==
    /\ \A s \in Sections : cfg[s].kind \in {"absent", "dict"}
    /\ cfgOut.op = "get" =>
          cfgOut.result = IF cfg[cfgOut.section].kind = "dict"
                             /\ cfg[cfgOut.section].items[cfgOut.key] # "absent"
                          THEN cfg[cfgOut.section].items[cfgOut.key]
                          ELSE "default"

\* C36: _cleanup_task removes only the handle of the task that completed:
\* the step that ends a completion handler takes that task's handle out of
\* the list and leaves every other handle where it was, and a task submitted
\* from an on_complete callback has its handle in the list for as long as it
\* is in flight, the cleanup of its parent included.
C36_CleanupOwnHandle ==
    /\ [][\A t \in TaskIds :
              (tState[t] # "done" /\ tState'[t] = "done") =>
                  tasks' = SelectSeq(tasks, LAMBDA e : e # t)]_vars
    /\ [](\A c \in TaskIds :
              (tParent[c] # 0 /\ tState[c] \in {"running", "emitted", "inCallback", "inDialog"}) =>
                  \E i \in 1..Len(tasks) : tasks[i] = c)

\* Task 2 was submitted by the on_complete callback of task 1; the handler
\* of task 1 is over and only the handle of task 2 is left.
C36_Witness ==
    /\ tParent[2] = 1
    /\ tState[1] = "done"
    /\ tState[2] = "running"
    /\ tasks = <<2>>

\* C37: publish_async never raises to its caller because a handler or a
\* dispatch failed: the failure of an asynchronous handler, and the failure
\* to hand an ordinary handler to the pool (as on a bus never initialized,
\* whose loop is None), are caught per handler, and a publish_async that has
\* returned has visited every handler of its list.
C37_AsyncFailuresContained ==
    /\ aPc # "raised"
    /\ aPc = "done" => Len(Visits) = Len(aList)
    /\ \A i \in LogIdx("nopool") : aIdx > i

\* On a bus never initialized, a publish_async over B (ordinary) and A
\* (asynchronous) has returned: handing B to the pool failed, and A was
\* still visited and awaited.
C37_Witness ==
    /\ aPc = "done"
    /\ ~loop
    /\ aList = <<<<"B", 10>>, <<"A", 5>>>>
    /\ aLog = <<<<"nopool", 1>>, <<"await", 2>>, <<"resumed", 2>>>>

\* C28: subscribe and unsubscribe calls of different threads on one event
\* type lose no update: once the calls in progress have returned, every
\* handler holds in the list of the type the registrations its subscribe
\* calls made since it was last unsubscribed.
C28_NoLostUpdate ==
    (thrSub = <<>> /\ thrUns = <<>>) =>
        \A t \in DOMAIN subLog, g \in Handlers :
            Registrations(ListOf(t), g) = Registrations(LogOf(t), g)

\* The entries the loop of publish has yet to visit.
ToVisit == Len(iterList) - iterIdx + 1

\* C26: publish terminates whatever its handlers subscribe: every pass of
\* its loop leaves fewer entries to visit than there were before it.
C26_LoopProgress ==
    [][(pubPc = "dispatch" /\ pubPc' = "dispatch" /\ calls' # calls) =>
          ToVisit' < ToVisit]_vars

\* C17: when a publish of type t returns, it has called each handler once per
\* registration the handler has for t, whatever the priorities of these.
C17_OncePerRegistration ==
    PublishReturning =>
        \A h \in Handlers : CallsOf(h) = Registrations(LogOf(pubType), h)

\* A publish that called "A" twice, for two registrations of different
\* priorities, and "B" once.
C17_Witness ==
    /\ PublishReturning
    /\ LogOf(pubType) = <<<<"A", 5>>, <<"B", 5>>, <<"A", 10>>>>
    /\ CallsOf("A") = 2
    /\ CallsOf("B") = 1

\* C18: a handler registered for a type when shutdown was called, and not
\* subscribed to it since, has no entry in the table, and no publish of the
\* type calls it.
C18_ShutdownDropsAll ==
    dropped =>
        /\ Registrations(ListOf(Watched[1]), Watched[2]) = 0
        /\ (pubPc = "dispatch" /\ pubType = Watched[1]) => CallsOf(Watched[2]) = 0

\* After a shutdown that dropped "A" for "tick", "B" was subscribed and a
\* publish of "tick" called "B" only.
C18_Witness ==
    /\ dropped
    /\ PublishReturning
    /\ pubType = "tick"
    /\ CalledHandlers = <<"B">>

(***************************************************************************)
(* Properties of the task runner                                           *)
(***************************************************************************)
\* The completion handler of task t has started: its signal was delivered.
Delivered(t) == tState[t] \in {"inCallback", "inDialog", "done", "aborted"}

\* C4: a task whose callable raised has on_error called exactly once (with
\* the error text) and on_complete never; a task whose callable returned has
\* on_complete called exactly once, with the returned value, and on_error
\* never. "Exactly once" is: at most once at any time, and once from the
\* moment the signal is delivered, for the callbacks that were given.
C4_ExactlyOneCallback ==
    \A t \in TaskIds :
        /\ tReturned[t] = <<"raise">> =>
              /\ completeCalls[t] = <<>>
              /\ Len(errorCalls[t]) <= 1
              /\ (Delivered(t) /\ tCallbacks[t][2]) => Len(errorCalls[t]) = 1
        /\ (tReturned[t] # <<>> /\ tReturned[t][1] = "return") =>
              /\ errorCalls[t] = <<>>
              /\ Len(completeCalls[t]) <= 1
              /\ (Delivered(t) /\ tCallbacks[t][1]) => completeCalls[t] = <<tReturned[t][2]>>

\* One task returned "v2" and had on_complete("v2"); another raised and had
\* on_error; both handlers ran to their end.
C4_Witness ==
    \E t, u \in TaskIds :
        /\ tState[t] = "done" /\ tReturned[t] = <<"return", "v2">>
        /\ completeCalls[t] = <<"v2">> /\ errorCalls[t] = <<>>
        /\ tState[u] = "done" /\ tReturned[u] = <<"raise">>
        /\ Len(errorCalls[u]) = 1 /\ completeCalls[u] = <<>>

InTasks(t) == \E i \in 1..Len(tasks) : tasks[i] = t

\* C5: from run_async on, and as long as its terminal callback has not
\* returned, a task's handle is in self.tasks.
C5_HandleRetained ==
    \A t \in TaskIds : tState[t] \notin {"new", "done"} => InTasks(t)

\* Two tasks in flight, one of them inside its terminal callback.
C5_Witness ==
    \E t, u \in TaskIds :
        /\ tState[t] = "inCallback" /\ InTasks(t)
        /\ tState[u] = "running" /\ InTasks(u)

\* The completion handler of task t is over: it returned or was left by an
\* exception.
HandlerOver(t) == tState[t] \in {"done", "aborted"}

\* C6: cleanup is guaranteed: once the completion handler of a task is over,
\* whatever the callable and the callback did, its handle is no longer in
\* self.tasks.
C6_CleanupGuaranteed ==
    \A t \in TaskIds : HandlerOver(t) => ~InTasks(t)

\* C19: a task whose callable raised, with no on_error given, gets the error
\* dialog: at most once at any time, once from the moment the signal is
\* delivered, and no callback.
C19_ErrorNeverSilent ==
    \A t \in TaskIds :
        (tReturned[t] = <<"raise">> /\ ~tCallbacks[t][2]) =>
            /\ surfaces[t] <= 1
            /\ Delivered(t) => surfaces[t] = 1
            /\ errorCalls[t] = <<>> /\ completeCalls[t] = <<>>

\* A task given on_complete only raised, its dialog was shown and closed.
C19_Witness ==
    \E t \in TaskIds :
        /\ tState[t] = "done"
        /\ tReturned[t] = <<"raise">>
        /\ tCallbacks[t] = <<TRUE, FALSE>>
        /\ surfaces[t] = 1

\* C20: a task never completes twice: whatever is delivered for it, and
\* however often, its callbacks are invoked at most once in all.
C20_NoDoubleCompletion ==
    \A t \in TaskIds : Len(completeCalls[t]) + Len(errorCalls[t]) <= 1

\* C21: run_async returns with the callable not yet run and the handle
\* stored; the callable is run on the worker's thread, never on the
\* submitting one.
C21_NonBlockingSubmit ==
    \A t \in TaskIds :
        /\ tState[t] = "running" => (tReturned[t] = <<>> /\ tRanOn[t] = "none" /\ InTasks(t))
        /\ tReturned[t] # <<>> => tRanOn[t] = "worker"

\* The caller submitted a second task while the first was in flight; the
\* first has since run, the second not yet.
C21_Witness ==
    /\ tState[1] = "emitted"
    /\ tRanOn[1] = "worker"
    /\ tState[2] = "running"
    /\ tasks = <<1, 2>>

\* C30: no task is cancelled or lost: under fair scheduling every submitted
\* task has its completion or its error delivered to its handler.
C30_EveryTaskDelivered ==
    \A t \in TaskIds : (tState[t] = "running") ~> Delivered(t)

\* Every task that can be submitted has been, and the handler of each is over.
C30_Witness ==
    \A t \in TaskIds : HandlerOver(t) /\ tSignal[t] # <<>>

\* The number of entries of self.tasks that are the handle of task t.
HandleCount(t) == Cardinality({i \in 1..Len(tasks) : tasks[i] = t})

\* C27: with completions and run_async interleaved in any way, the handle of
\* a task whose cleanup is over is not in self.tasks and the handle of every
\* other submitted task is in it exactly once.
C27_NoLostHandle ==
    \A t \in TaskIds :
        /\ tState[t] = "done" => HandleCount(t) = 0
        /\ tState[t] \in {"running", "emitted", "inCallback", "removing"} => HandleCount(t) = 1
        /\ tState[t] = "new" => HandleCount(t) = 0

\* Two tasks were past the membership test at once: the second has removed
\* its handle, the first is about to.
C27_Witness ==
    /\ tState[1] = "removing"
    /\ tState[2] = "done"
    /\ tasks = <<1>>

(***************************************************************************)
(* Properties of the PluginManager                                         *)
(***************************************************************************)
\* The instances the registry holds.
Registered == {plugins[i][2] : i \in 1..Len(plugins)}

\* The instance discovered last under name k, 0 when there is none.
LatestOf(k) ==
    LET S == {i \in 1..Len(instances) : instances[i].name = k}
    IN  IF S = {} THEN 0 ELSE Max(S)

\* C7: however many instances discovery has stored under one name, the
\* registry holds exactly one entry for that name, and get_plugin(name) is
\* the instance discovered last.
C7_LastRegisteredWins ==
    \A k \in PluginNames :
        /\ Cardinality({i \in 1..Len(plugins) : plugins[i][1] = k}) <= 1
        /\ LatestOf(k) # 0 =>
              /\ Cardinality({i \in 1..Len(plugins) : plugins[i][1] = k}) = 1
              /\ GetPlugin(k) = LatestOf(k)

\* "finance" was discovered twice: the registry has the one entry, the second
\* instance.
C7_Witness ==
    /\ Len(instances) = 2
    /\ instances[1].name = "finance"
    /\ instances[2].name = "finance"
    /\ plugins = << <<"finance", 2>> >>
    /\ GetPlugin("finance") = 2

\* C8: discover_plugins never raises; a candidate that fails to load or one
\* of whose plugin classes fails to construct is skipped, so that nothing of
\* it is registered; and every plugin of every valid candidate is registered
\* under its name.
C8_BrokenSkippedValidKept ==
    /\ ~(pmOp = "discover" /\ opRaised)
    /\ \A i \in 1..Len(instances) :
          IF instances[i].fromBroken
          THEN i \notin Registered
          ELSE HasKey(plugins, instances[i].name)

\* C9: one call of initialize_plugins does not raise and calls initialize()
\* exactly once on every registered plugin, whatever the other calls did.
C9_InitializeAll ==
    pmOp = "initialize" =>
        /\ ~opRaised
        /\ \A x \in Registered :
              Cardinality({j \in 1..Len(opLog) : opLog[j][1] = x}) = 1

\* Two plugins, the initialize() of the first raised, the second was called.
C9_Witness ==
    /\ pmOp = "initialize"
    /\ Len(plugins) = 2
    /\ opLog = << <<plugins[1][2], "raise">>, <<plugins[2][2], "return">> >>

\* C32: a plugin whose initialize() raised during initialize_plugins stays
\* registered: get_plugin of its name returns that instance once the call is
\* over, and a call of initialize_plugins leaves the registry, names and
\* instances and their order, as it was.
C32_FailedStaysRegistered ==
    /\ [](pmOp = "initialize" =>
             \A j \in 1..Len(opLog) :
                 opLog[j][2] = "raise" => GetPlugin(instances[opLog[j][1]].name) = opLog[j][1])
    /\ [][(pmPc = "idle" /\ pmPc' = "idle" /\ pmOp' = "initialize") =>
              plugins' = plugins]_vars

\* initialize_plugins is over on a registry of two plugins, both of which
\* raised in initialize(): both are still there.
C32_Witness ==
    /\ pmOp = "initialize"
    /\ Len(plugins) = 2
    /\ opLog = << <<plugins[1][2], "raise">>, <<plugins[2][2], "raise">> >>
    /\ GetPlugin(plugins[2][1]) = plugins[2][2]

\* C10: one call of shutdown_plugins does not raise and calls shutdown() on
\* every registered plugin, whatever its initialize() did and whatever the
\* other shutdown() calls did.
C10_ShutdownAll ==
    pmOp = "shutdown" =>
        /\ ~opRaised
        /\ \A x \in Registered : \E j \in 1..Len(opLog) : opLog[j][1] = x

\* Two plugins, one whose initialize() had failed and one never initialized:
\* the shutdown() of the first raised, and the second was still called.
C10_Witness ==
    /\ pmOp = "shutdown"
    /\ Len(plugins) = 2
    /\ initState[plugins[1][2]] = "failed"
    /\ initState[plugins[2][2]] = "none"
    /\ opLog = << <<plugins[1][2], "raise">>, <<plugins[2][2], "return">> >>

\* The instances the calls of the last operation were made on.
Called(log) == {log[j][1] : j \in 1..Len(log)}

\* A step that is a new call of initialize_plugins / of shutdown_plugins.
InitializeStep ==
    pmOp' = "initialize" /\ <<pmOp, opLog, initState>> # <<pmOp', opLog', initState'>>
ShutdownStep ==
    pmOp' = "shutdown" /\ <<pmOp, opLog>> # <<pmOp', opLog'>>

\* C11: every plugin instance follows Discovered -> Initialized -> ShutDown
\* with no skipped or repeated transition. Of one step this says: initialize()
\* is called only on an instance that has had no initialize() and was not just
\* shut down; shutdown() is called only on an instance whose initialize()
\* succeeded and that was not just shut down.
C11_LifecycleOrder ==
    [][/\ InitializeStep =>
            \A x \in Called(opLog') :
                /\ initState[x] = "none"
                /\ ~(pmOp = "shutdown" /\ x \in Called(opLog))
       /\ ShutdownStep =>
            \A x \in Called(opLog') :
                /\ initState[x] = "ok"
                /\ ~(pmOp = "shutdown" /\ x \in Called(opLog))]_vars

\* C35: no initialized plugin is orphaned: whatever calls of
\* discover_plugins, initialize_plugins and shutdown_plugins were made, an
\* instance on which initialize() was called is in the registry, and a
\* shutdown_plugins that has run has passed it to shutdown().
C35_NoOrphan ==
    \A x \in 1..Len(instances) :
        initState[x] # "none" =>
            /\ x \in Registered
            /\ pmOp = "shutdown" => x \in Called(opLog)

(***************************************************************************)
(* Properties of the ApplicationOrchestrator                               *)
(***************************************************************************)
IsPrefix(a, b) == Len(a) <= Len(b) /\ a = SubSeq(b, 1, Len(a))

Completed(s) == \E k \in 1..Len(orchTrace) : orchTrace[k] = s

\* The last operation of the plugin manager called every registered plugin,
\* in the order of self.plugins.
CalledAllPlugins ==
    /\ Len(opLog) = Len(plugins)
    /\ \A i \in 1..Len(plugins) : opLog[i][1] = plugins[i][2]

\* C12: initialize runs load configuration, EventBus.initialize, discover
\* plugins, initialize plugins in that order; when the plugins' initialize()
\* calls have been made, configuration loading and EventBus.initialize are
\* over and the bus has its loop.
C12_InitializeOrder ==
    orchOp = "initialize" =>
        /\ IsPrefix(orchTrace,
                    <<"load_config", "bus_initialize", "discover_plugins",
                      "initialize_plugins">>)
        /\ Completed("initialize_plugins") =>
               /\ pmOp = "initialize"
               /\ Completed("load_config")
               /\ Completed("bus_initialize")
               /\ loop

C12_Witness ==
    /\ orchOp = "initialize"
    /\ OrchIdle
    /\ Completed("initialize_plugins")
    /\ Len(opLog) = 2

\* C13: in shutdown, once shutdown_plugins is over shutdown() has been called
\* on every registered plugin, and EventBus.shutdown comes after it (the
\* subscriptions are not cleared before); shutdown returns only after
\* EventBus.shutdown, whatever the plugins' shutdown() calls did.
C13_PluginsBeforeBus ==
    orchOp = "shutdown" =>
        /\ IsPrefix(orchTrace, <<"shutdown_plugins", "bus_shutdown">>)
        /\ Completed("shutdown_plugins") => pmOp = "shutdown" /\ CalledAllPlugins
        /\ OrchIdle => Completed("bus_shutdown")

\* shutdown_plugins is over, a plugin's shutdown() raised, and the bus still
\* holds a subscription.
C13_Witness ==
    /\ orchOp = "shutdown"
    /\ AtStep("bus_shutdown")
    /\ Len(plugins) = 2
    /\ \E j \in 1..Len(opLog) : opLog[j][2] = "raise"
    /\ TotalSubs > 0

\* C14: initialize_plugins and shutdown_plugins call the registered plugins
\* in the order in which they were discovered (instances are numbered in
\* discovery order).
C14_DiscoveryOrder ==
    pmOp \in {"initialize", "shutdown"} =>
        \A i \in 1..Len(opLog), j \in 1..Len(opLog) :
            i < j => opLog[i][1] < opLog[j][1]

\* C15: initialize and shutdown never raise to their caller and return only
\* after their last statement, whatever discovery, the plugins' initialize()
\* and shutdown() calls and the configuration file do.
C15_FailuresContained ==
    /\ ~orchRaised
    /\ ~opRaised
    /\ (OrchIdle /\ orchOp = "initialize") => Len(orchTrace) = Len(InitializeSteps)
    /\ (OrchIdle /\ orchOp = "shutdown") => Len(orchTrace) = Len(ShutdownSteps)

\* initialize has returned after a plugin's initialize() raised and a
\* candidate of the discovery was broken.
C15_Witness ==
    /\ orchOp = "initialize"
    /\ OrchIdle
    /\ pmOp = "initialize"
    /\ \E j \in 1..Len(opLog) : opLog[j][2] = "raise"
    /\ toScan > Len(instances)

\* C16: get_service returns the instance last given to register_service for
\* the name, None if there was none; nothing else changes the registry.
C16_ServiceRegistry ==
    \A k \in ServiceNames : GetService(k) = lastReg[k]

C16_Witness ==
    /\ orchOp = "shutdown"
    /\ OrchIdle
    /\ Len(opLog) > 0
    /\ GetService("r") = "s2"
    /\ GetService("export") = "None"
    /\ lastReg["r"] = "s2"

====
